---------------------------- MODULE Spec2Model ----------------------------
(***************************************************************************)
(* Model of audiobook_translate_chunked.py (src/27-11-2025.py): the        *)
(* sentence-preserving segmenter, the mojibake normalizer, the chunked     *)
(* translation pipeline and the retrying synthesis stage.                  *)
(*                                                                         *)
(* A text is a sequence of Unicode code points (naturals); the empty text  *)
(* is << >>.  Python's None is the one-element sequence << -1 >>, which is *)
(* no text.                                                                *)
(***************************************************************************)
EXTENDS Integers, Sequences, FiniteSets, TLC

VARIABLES
    \* split_text_preserve_sentences, run as a loop
    sp_in,      \* the text argument
    sp_limit,   \* the limit argument
    sp_text,    \* the local `text`: what remains to be split
    sp_parts,   \* the local `parts`
    sp_iters,   \* number of loop iterations run so far
    sp_pc,      \* "call" | "loop" | "done"
    \* normalize_mojibake, applied to a text and then to its own result
    nm_in,      \* the argument
    nm_once,    \* normalize_mojibake(nm_in)
    nm_twice,   \* normalize_mojibake(nm_once)
    nm_pc,      \* "call" | "once" | "twice"
    \* generate_and_join
    pc,               \* where the program is
    text,             \* the document
    detected_lang,    \* its language tag
    target_lang,      \* the language chosen for the translation
    translated,       \* what safe_translate_text_chunks returned
    \* safe_translate_text_chunks, its locals
    chunks, idx, translated_parts, ok, attempt, result,
    smaller, sub_j, sub_attempt, inner_translated,
    \* the synthesis stage
    disk,             \* the indices whose part file exists in out_dir
    limit, tts_parts,
    tts_i,            \* the loop index i
    generated,
    tts_attempt,      \* attempt of save_part_with_retries
    backoff,
    manifest,         \* the names written to list.txt, None before
    \* what the program did, for the properties
    sleeps,           \* the sleeps of the chunk or part at hand
    calls,            \* the remote calls made for it
    invoked,          \* the chunk indices translate was called for
    aborted_at,       \* the chunk the translation was given up at, or 0
    progress,         \* the update_progress_line calls of the translation
    synth_invoked,    \* the part indices save was called for
    failed_at,        \* the part the synthesis was given up at, or 0
    last_answer       \* the last answer to the keep-original prompt

splitVars == <<sp_in, sp_limit, sp_text, sp_parts, sp_iters, sp_pc>>

normVars == <<nm_in, nm_once, nm_twice, nm_pc>>

callerVars == <<text, detected_lang, target_lang, translated>>

transVars == <<chunks, idx, translated_parts, ok, attempt, result>>

subVars == <<smaller, sub_j, sub_attempt, inner_translated>>

ttsVars == <<disk, limit, tts_parts, tts_i, generated, tts_attempt, backoff,
             manifest>>

logVars == <<sleeps, calls, invoked, aborted_at, progress, synth_invoked,
             failed_at, last_answer>>

pipeVars == <<pc, callerVars, transVars, subVars, ttsVars, logVars>>

vars == <<splitVars, normVars, pipeVars>>

\* what the segmenter run, the normalizer run and the program leave alone
notSplit == <<normVars, pipeVars>>
notNorm == <<splitVars, pipeVars>>
notPipe == <<splitVars, normVars>>

-----------------------------------------------------------------------------
(* Bounds of the model *)

MaxSplitLen == 5
MaxSplitLimit == 4
MaxNormLen == 3
MaxParts == 3

-----------------------------------------------------------------------------
(* Configuration (lines 77-83); durations are in half seconds *)

MAX_CHARS == 4200
MAX_TRANSLATE_CHARS == 4500
TRANSLATE_RETRIES == 4
\* TRANSLATE_BACKOFF = 1.0 s
TRANSLATE_BACKOFF == 2
MAX_RETRIES == 6
\* INITIAL_BACKOFF = 1.0 s
INITIAL_BACKOFF == 2
\* `if len(chunk) > 1000`, `max(1000, ...)`
SUB_SPLIT_MIN == 1000
\* `while not sub_ok and sub_attempt < 3`
SUB_RETRIES == 3

\* None
None == << -1 >>

-----------------------------------------------------------------------------
(* Python string primitives *)

Min(a, b) == IF a <= b THEN a ELSE b
Max(a, b) == IF a >= b THEN a ELSE b

SetMax(S) == CHOOSE x \in S : \A y \in S : y <= x

\* str.isspace() for one character: what strip()/lstrip() remove
IsSpace(c) ==
    \/ c \in {9, 10, 11, 12, 13, 28, 29, 30, 31, 32, 133, 160, 5760}
    \/ (c >= 8192 /\ c <= 8202)
    \/ c \in {8232, 8233, 8239, 8287, 12288}

\* index of the first / last non-whitespace character (Len+1 / 0 when none)
FirstNonSpace(s) ==
    IF \A i \in DOMAIN s : IsSpace(s[i]) THEN Len(s) + 1
    ELSE CHOOSE i \in DOMAIN s :
            ~IsSpace(s[i]) /\ \A k \in 1..(i - 1) : IsSpace(s[k])

LastNonSpace(s) ==
    IF \A i \in DOMAIN s : IsSpace(s[i]) THEN 0
    ELSE CHOOSE i \in DOMAIN s :
            ~IsSpace(s[i]) /\ \A k \in (i + 1)..Len(s) : IsSpace(s[k])

LStrip(s) == SubSeq(s, FirstNonSpace(s), Len(s))

Strip(s) == SubSeq(s, FirstNonSpace(s), LastNonSpace(s))

\* a slice bound as Python clamps it: negative counts from the end
SliceIndex(s, k) == IF k >= 0 THEN Min(k, Len(s)) ELSE Max(Len(s) + k, 0)

\* s[:k] and s[k:]
Prefix(s, k) == SubSeq(s, 1, SliceIndex(s, k))
Suffix(s, k) == SubSeq(s, SliceIndex(s, k) + 1, Len(s))

\* s.rfind(p, 0, end) for a one-character p: 0-based index, -1 when absent
RFind(s, p, end) ==
    LET hits == {i \in 0..(SliceIndex(s, end) - 1) : s[i + 1] = p}
    IN  IF hits = {} THEN -1 ELSE SetMax(hits)

-----------------------------------------------------------------------------
(* split_text_preserve_sentences *)

\* the boundary markers  . ! ? \n ; ,
Markers == {46, 33, 63, 10, 59, 44}

\* cut = max(candidates); if cut <= 0: cut = limit
CutMutNoFallback(t, lim) ==
    SetMax({RFind(t, p, lim) : p \in Markers})

CutIndexMutShortFallback(t, lim) ==
    LET cut == SetMax({RFind(t, p, lim) : p \in Markers})
    IN  IF cut <= 0 THEN lim - 1 ELSE cut

CutIndex(t, lim) ==
    LET cut == SetMax({RFind(t, p, lim) : p \in Markers})
    IN  IF cut <= 0 THEN lim ELSE cut

\* one pass of the loop body below the `len(text) <= limit` test:
\* the emitted part and the text that remains
CutStepMutNoProgress(t, lim) ==
    LET cut == SetMax({RFind(t, p, lim) : p \in Markers})
    IN  [part |-> Strip(Prefix(t, cut)), rest |-> LStrip(Suffix(t, cut))]

CutStepMutSkipChar(t, lim) ==
    LET cut == CutIndex(t, lim)
    IN  [part |-> Strip(Prefix(t, cut)),
         rest |-> LStrip(Suffix(t, cut + 1))]

CutStep(t, lim) ==
    LET cut  == CutIndex(t, lim)
        part == Strip(Prefix(t, cut))
    IN  IF part = << >>
        THEN [part |-> Strip(Prefix(t, lim)),
              rest |-> LStrip(Suffix(t, lim))]
        ELSE [part |-> part, rest |-> LStrip(Suffix(t, cut))]

\* the function as a whole, for the callers that use its result
RECURSIVE SplitLoop(_, _, _)
SplitLoop(t, lim, parts) ==
    IF t = << >> THEN parts
    ELSE IF Len(t) <= lim THEN Append(parts, Strip(t))
    ELSE LET st == CutStep(t, lim)
         IN  SplitLoop(st.rest, lim, Append(parts, st.part))

split_text_preserve_sentences(t, lim) ==
    SplitLoop(Strip(t), lim, << >>)

-----------------------------------------------------------------------------
(* The segmenter run step by step on small inputs *)

\* a, space, full stop, newline, comma
SplitAlphabet == {97, 32, 46, 10, 44}

RECURSIVE TextsUpTo(_, _)
TextsUpTo(A, n) ==
    IF n = 0 THEN {<< >>}
    ELSE LET shorter == TextsUpTo(A, n - 1)
         IN  shorter \cup {Append(s, c) : s \in shorter, c \in A}

\* "Hello world. This is a test."
ScenarioA == <<72, 101, 108, 108, 111, 32, 119, 111, 114, 108, 100, 46, 32,
               84, 104, 105, 115, 32, 105, 115, 32, 97, 32, 116, 101, 115,
               116, 46>>
\* "Hello world."  and  "This is a test."
ScenarioA1 == SubSeq(ScenarioA, 1, 12)
ScenarioA2 == SubSeq(ScenarioA, 14, 28)

SplitInputs ==
    (TextsUpTo(SplitAlphabet, MaxSplitLen) \X (1..MaxSplitLimit))
        \cup {<<ScenarioA, 15>>}

\* the variables of a run that is not under way
SplitIdle ==
    /\ sp_in = << >>
    /\ sp_limit = 1
    /\ sp_text = << >>
    /\ sp_parts = << >>
    /\ sp_iters = 0
    /\ sp_pc = "idle"

NormIdle ==
    /\ nm_in = << >>
    /\ nm_once = << >>
    /\ nm_twice = << >>
    /\ nm_pc = "idle"

PipeIdle ==
    /\ pc = "idle"
    /\ text = << >>
    /\ detected_lang = "en"
    /\ target_lang = "none"
    /\ translated = None
    /\ chunks = << >>
    /\ idx = 0
    /\ translated_parts = << >>
    /\ ok = FALSE
    /\ attempt = 0
    /\ result = None
    /\ smaller = << >>
    /\ sub_j = 0
    /\ sub_attempt = 0
    /\ inner_translated = << >>
    /\ disk = {}
    /\ limit = 0
    /\ tts_parts = << >>
    /\ tts_i = 0
    /\ generated = << >>
    /\ tts_attempt = 0
    /\ backoff = 0
    /\ manifest = None
    /\ sleeps = << >>
    /\ calls = << >>
    /\ invoked = {}
    /\ aborted_at = 0
    /\ progress = << >>
    /\ synth_invoked = {}
    /\ failed_at = 0
    /\ last_answer = "none"

SplitInit ==
    \E inp \in SplitInputs :
        /\ sp_in = inp[1]
        /\ sp_limit = inp[2]
        /\ sp_text = << >>
        /\ sp_parts = << >>
        /\ sp_iters = 0
        /\ sp_pc = "call"
        /\ NormIdle
        /\ PipeIdle

\* parts = []; text = text.strip()
SplitEnter ==
    /\ sp_pc = "call"
    /\ sp_text' = Strip(sp_in)
    /\ sp_parts' = << >>
    /\ sp_pc' = "loop"
    /\ UNCHANGED <<sp_in, sp_limit, sp_iters, notSplit>>

\* while text: if len(text) <= limit: parts.append(text.strip()); break
SplitLast ==
    /\ sp_pc = "loop"
    /\ sp_text # << >>
    /\ Len(sp_text) <= sp_limit
    /\ sp_parts' = Append(sp_parts, Strip(sp_text))
    /\ sp_iters' = sp_iters + 1
    /\ sp_pc' = "done"
    /\ UNCHANGED <<sp_in, sp_limit, sp_text, notSplit>>

\* the rest of the loop body: cut, append the part, keep the remainder
SplitCut ==
    /\ sp_pc = "loop"
    /\ sp_text # << >>
    /\ Len(sp_text) > sp_limit
    /\ sp_parts' = Append(sp_parts, CutStep(sp_text, sp_limit).part)
    /\ sp_text' = CutStep(sp_text, sp_limit).rest
    /\ sp_iters' = sp_iters + 1
    /\ UNCHANGED <<sp_in, sp_limit, sp_pc, notSplit>>

\* the loop condition fails: return parts
SplitReturn ==
    /\ sp_pc = "loop"
    /\ sp_text = << >>
    /\ sp_pc' = "done"
    /\ UNCHANGED <<sp_in, sp_limit, sp_text, sp_parts, sp_iters, notSplit>>

SplitNext == SplitEnter \/ SplitLast \/ SplitCut \/ SplitReturn

SpecSplit == SplitInit /\ [][SplitNext]_vars

-----------------------------------------------------------------------------
(* The segmenter called with limits that are not positive as well; the
   loop need not end then, so the run is followed for MaxSplitIters passes *)

MaxBadLen == 3
MaxNegLimit == 2
MaxSplitIters == 4

SplitAnyInit ==
    \E t \in TextsUpTo(SplitAlphabet, MaxBadLen), lim \in (0 - MaxNegLimit)..1 :
        /\ sp_in = t
        /\ sp_limit = lim
        /\ sp_text = << >>
        /\ sp_parts = << >>
        /\ sp_iters = 0
        /\ sp_pc = "call"
        /\ NormIdle
        /\ PipeIdle

SplitCutCapped == sp_iters < MaxSplitIters /\ SplitCut

SplitAnyNext == SplitEnter \/ SplitLast \/ SplitCutCapped \/ SplitReturn

SpecSplitAny == SplitAnyInit /\ [][SplitAnyNext]_vars

-----------------------------------------------------------------------------
(* normalize_mojibake *)

\* the members of a marked text that are characters (-1 marks a dropped one)
Kept(marked) == SelectSeq(marked, LAMBDA c : c # -1)

\* s.replace(k, v) for a key k none of whose occurrences can overlap another
\* (every key of the table: one character, or three with the first not
\* repeated) and a one-character value v
Replace(s, k, v) ==
    LET n == Len(k)
        hit(i) == i >= 1 /\ i + n - 1 <= Len(s) /\ SubSeq(s, i, i + n - 1) = k
    IN  Kept([i \in 1..Len(s) |->
                IF hit(i) THEN v
                ELSE IF \E d \in 1..(n - 1) : hit(i - d) THEN -1
                ELSE s[i]])

\* the replacement table, in the order of the dict literal
Repl ==
    << << <<226, 8364, 8482>>, 8217 >>,     \* -> U+2019
       << <<226, 8364, 39>>, 39 >>,         \* -> '
       << <<226, 8364, 339>>, 8220 >>,      \* -> U+201C
       << <<226, 8364, 65533>>, 8221 >>,    \* -> U+201D
       << <<226, 8364, 8220>>, 8211 >>,     \* -> U+2013
       << <<226, 8364, 8221>>, 8212 >>,     \* -> U+2014
       << <<226, 8364, 166>>, 8230 >>,      \* -> U+2026
       << <<8216>>, 39 >>,                  \* U+2018 -> '
       << <<8217>>, 8217 >> >>              \* U+2019 -> U+2019

\* for k, v in repl.items(): s = s.replace(k, v)   (the first n entries)
RECURSIVE ApplyRepl(_, _)
ApplyRepl(s, n) ==
    IF n = 0 THEN s
    ELSE Replace(ApplyRepl(s, n - 1), Repl[n][1], Repl[n][2])

Count(s, c) == Cardinality({i \in DOMAIN s : s[i] = c})

\* UTF-8: continuation bytes, and the number of them a lead byte asks for
\* (-1 for a byte that cannot start a character)
IsCont(b) == b >= 128 /\ b <= 191

Need(b) ==
    IF b <= 127 THEN 0
    ELSE IF b >= 194 /\ b <= 223 THEN 1
    ELSE IF b >= 224 /\ b <= 239 THEN 2
    ELSE IF b >= 240 /\ b <= 244 THEN 3
    ELSE -1

\* the second byte of a sequence led by b1 is in the range b1 allows
SecondOk(b1, b2) ==
    CASE b1 = 224 -> b2 >= 160 /\ b2 <= 191
      [] b1 = 237 -> b2 >= 128 /\ b2 <= 159
      [] b1 = 240 -> b2 >= 144 /\ b2 <= 191
      [] b1 = 244 -> b2 >= 128 /\ b2 <= 143
      [] OTHER    -> IsCont(b2)

\* bytes.decode('utf-8') succeeds
Utf8Valid(b) ==
    \A i \in DOMAIN b :
        IF IsCont(b[i])
        THEN \E d \in 1..3 :
                /\ i - d >= 1
                /\ Need(b[i - d]) >= d
                /\ \A e \in 1..(d - 1) : IsCont(b[i - e])
        ELSE /\ Need(b[i]) >= 0
             /\ i + Need(b[i]) <= Len(b)
             /\ \A e \in 1..Need(b[i]) : IsCont(b[i + e])
             /\ Need(b[i]) >= 1 => SecondOk(b[i], b[i + 1])

\* bytes.decode('utf-8') of valid bytes
Utf8Decode(b) ==
    Kept([i \in 1..Len(b) |->
            CASE IsCont(b[i])   -> -1
              [] Need(b[i]) = 0 -> b[i]
              [] Need(b[i]) = 1 -> (b[i] - 192) * 64 + (b[i + 1] - 128)
              [] Need(b[i]) = 2 -> (b[i] - 224) * 4096 + (b[i + 1] - 128) * 64
                                       + (b[i + 2] - 128)
              [] OTHER          -> (b[i] - 240) * 262144
                                       + (b[i + 1] - 128) * 4096
                                       + (b[i + 2] - 128) * 64 + (b[i + 3] - 128)])

\* the re-encoding heuristic: s.encode('latin1').decode('utf-8'), kept when
\* it has fewer a-circumflex (226) than s; any exception leaves s as it is
Redecode(s) ==
    IF (\E i \in DOMAIN s : s[i] = 195 \/ s[i] = 226)
       /\ (\A i \in DOMAIN s : s[i] <= 255)
       /\ Utf8Valid(s)
       /\ Count(Utf8Decode(s), 226) < Count(s, 226)
    THEN Utf8Decode(s)
    ELSE s

\* re.sub(r'[ \t]+', ' ', s)
CollapseBlanks(s) ==
    Kept([i \in 1..Len(s) |->
            IF s[i] \in {32, 9}
            THEN IF i > 1 /\ s[i - 1] \in {32, 9} THEN -1 ELSE 32
            ELSE s[i]])

\* re.sub(r'\n{3,}', '\n\n', s)
CollapseNewlines(s) ==
    Kept([i \in 1..Len(s) |->
            IF i >= 3 /\ s[i] = 10 /\ s[i - 1] = 10 /\ s[i - 2] = 10
            THEN -1 ELSE s[i]])

normalize_mojibake(s) ==
    IF s = << >> THEN s
    ELSE Strip(CollapseNewlines(CollapseBlanks(
             Redecode(ApplyRepl(s, Len(Repl))))))

-----------------------------------------------------------------------------
(* The normalizer applied twice to small inputs *)

\* a-circumflex, euro, apostrophe, U+2018, trademark, the bytes 80 and 98,
\* A-tilde, space, newline, a
NormAlphabet == {226, 8364, 39, 8216, 8482, 128, 152, 195, 32, 10, 97}

NormInit ==
    /\ nm_in \in TextsUpTo(NormAlphabet, MaxNormLen)
    /\ nm_once = << >>
    /\ nm_twice = << >>
    /\ nm_pc = "call"
    /\ SplitIdle
    /\ PipeIdle

NormFirst ==
    /\ nm_pc = "call"
    /\ nm_once' = normalize_mojibake(nm_in)
    /\ nm_pc' = "once"
    /\ UNCHANGED <<nm_in, nm_twice, notNorm>>

NormSecond ==
    /\ nm_pc = "once"
    /\ nm_twice' = normalize_mojibake(nm_once)
    /\ nm_pc' = "twice"
    /\ UNCHANGED <<nm_in, nm_once, notNorm>>

NormNext == NormFirst \/ NormSecond

SpecNorm == NormInit /\ [][NormNext]_vars

-----------------------------------------------------------------------------
(* yesno *)

YesWords == {"y", "yes", "s", "sim"}
NoWords == {"n", "no", "nao"}

\* the answers tried: yes, no, and the empty line
Answers == {"s", "n", ""}

\* the value yesno returns for an answer it accepts
yesnoMutEmptyIsYes(ans, default) == ans = "" \/ ans \in YesWords

yesno(ans, default) == IF ans = "" THEN default ELSE ans \in YesWords

-----------------------------------------------------------------------------
(* safe_translate_text_chunks: the pure parts *)

\* sep.join(parts)
RECURSIVE Join(_, _)
Join(sep, parts) ==
    IF parts = << >> THEN << >>
    ELSE IF Len(parts) = 1 THEN parts[1]
    ELSE parts[1] \o sep \o Join(sep, Tail(parts))

\* text.split('\n\n')
RECURSIVE SplitParagraphs(_)
SplitParagraphs(t) ==
    LET hits == {k \in 1..(Len(t) - 1) : t[k] = 10 /\ t[k + 1] = 10}
    IN  IF hits = {} THEN <<t>>
        ELSE LET first == CHOOSE k \in hits : \A h \in hits : k <= h
             IN  <<SubSeq(t, 1, first - 1)>>
                     \o SplitParagraphs(SubSeq(t, first + 2, Len(t)))

\* the chunks of one paragraph
ParagraphChunksMutNoSplit(par) ==
    LET q == Strip(par)
    IN  IF q = << >> THEN << << >> >> ELSE <<q>>

ParagraphChunks(par) ==
    LET q == Strip(par)
    IN  IF q = << >> THEN << << >> >>
        ELSE IF Len(q) <= MAX_TRANSLATE_CHARS THEN <<q>>
        ELSE split_text_preserve_sentences(q, MAX_TRANSLATE_CHARS)

RECURSIVE ChunkList(_)
ChunkList(pars) ==
    IF pars = << >> THEN << >>
    ELSE ParagraphChunks(Head(pars)) \o ChunkList(Tail(pars))

\* the chunks of a text (lines 305-320)
ChunksOf(t) == ChunkList(SplitParagraphs(normalize_mojibake(t)))

\* the smaller pieces of a chunk whose attempts all failed (line 356)
SubLimit == Max(SUB_SPLIT_MIN, MAX_TRANSLATE_CHARS \div 3)
SmallerOf(chunk) == split_text_preserve_sentences(chunk, SubLimit)

\* what GoogleTranslator(...).translate returns when it returns: the remote
\* service is outside the program; here it puts the letters a-z in
\* capitals, and returns the text as it is when the target is the language
\* the text is in
Translate(target, t) ==
    IF target = "en"
    THEN t
    ELSE SubSeq([k \in 1..Len(t) |->
                   IF t[k] >= 97 /\ t[k] <= 122 THEN t[k] - 32 ELSE t[k]],
                1, Len(t))

\* the wait before the next attempt, jitter left out (line 345)
RECURSIVE Pow2(_)
Pow2(n) == IF n = 0 THEN 1 ELSE 2 * Pow2(n - 1)

MainWaitMutShrinking(att) == TRANSLATE_BACKOFF * Pow2(TRANSLATE_RETRIES - att)

MainWait(att) == TRANSLATE_BACKOFF * Pow2(att - 1)

\* time.sleep(0.5 * sub_attempt) (line 371)
SubWait(sub_att) == sub_att

-----------------------------------------------------------------------------
(* The names of the parts and the manifest (lines 703, 721) *)

RECURSIVE Digits(_)
Digits(n) ==
    IF n < 10 THEN <<48 + n>>
    ELSE Append(Digits(n \div 10), 48 + (n % 10))

\* f"{i:03d}"
Pad3(n) ==
    LET ds == Digits(n)
    IN  IF Len(ds) >= 3 THEN ds ELSE [k \in 1..(3 - Len(ds)) |-> 48] \o ds

\* f"part{i:03d}.mp3"
PartName(n) == <<112, 97, 114, 116>> \o Pad3(n) \o <<46, 109, 112, 51>>

\* a < b for strings
StrLess(a, b) ==
    \E k \in 1..(Min(Len(a), Len(b)) + 1) :
        /\ \A h \in 1..(k - 1) : a[h] = b[h]
        /\ IF k <= Len(a) /\ k <= Len(b) THEN a[k] < b[k]
           ELSE k > Len(a) /\ k <= Len(b)

\* sorted(names): a stable sort, so names[k] goes after the names that are
\* smaller and after the equal ones that come before it
SortedPosition(names, k) ==
    1 + Cardinality({j \in 1..Len(names) :
                       \/ StrLess(names[j], names[k])
                       \/ j < k /\ names[j] = names[k]})

Sorted(names) ==
    LET n == Len(names)
        pos == SubSeq([k \in 1..n |-> SortedPosition(names, k)], 1, n)
    IN  SubSeq([p \in 1..n |-> names[CHOOSE k \in 1..n : pos[k] = p]], 1, n)

-----------------------------------------------------------------------------
(* generate_and_join, from the translation question on *)

\* a run of n copies of the character c
Rep(c, n) == SubSeq([k \in 1..n |-> c], 1, n)

\* "Hi.", a blank paragraph, "yo", "ok"
DocShort == <<72, 105, 46, 10, 10, 32, 10, 10, 121, 111, 10, 10, 111, 107>>
\* one paragraph just over the sub-split threshold
DocOver1000 == Rep(97, SUB_SPLIT_MIN + 1)
\* "ab" and a paragraph of two sentences, longer than the sub-split limit
DocTwoSentences == <<97, 98, 10, 10>> \o Rep(97, 1000) \o <<46>> \o Rep(98, 600)
\* one paragraph one character longer than a translation chunk may be
DocOverMax == Rep(97, MAX_TRANSLATE_CHARS + 1)

Docs == {DocShort, DocOver1000, DocTwoSentences, DocOverMax}

Targets == {"pt", "en"}

\* the limits typed at the prompt that are accepted: a number, or the empty
\* line for MAX_CHARS
TtsLimits == {3, 4, 8, MAX_CHARS}

\* split_text_preserve_sentences(t, lim) has at most n parts (the runs
\* with more parts are outside the model)
RECURSIVE FitsParts(_, _, _)
FitsParts(t, lim, n) ==
    IF t = << >> THEN TRUE
    ELSE IF n = 0 THEN FALSE
    ELSE IF Len(t) <= lim THEN TRUE
    ELSE FitsParts(CutStep(t, lim).rest, lim, n - 1)

\* the locals of safe_translate_text_chunks when it is not running
NoFrame ==
    /\ chunks' = << >>
    /\ idx' = 0
    /\ translated_parts' = << >>
    /\ ok' = FALSE
    /\ attempt' = 0
    /\ result' = None
    /\ smaller' = << >>
    /\ sub_j' = 0
    /\ sub_attempt' = 0
    /\ inner_translated' = << >>

Init ==
    /\ pc = "ask_translate"
    /\ text \in Docs
    /\ detected_lang = "en"
    /\ target_lang = "none"
    /\ translated = None
    /\ chunks = << >>
    /\ idx = 0
    /\ translated_parts = << >>
    /\ ok = FALSE
    /\ attempt = 0
    /\ result = None
    /\ smaller = << >>
    /\ sub_j = 0
    /\ sub_attempt = 0
    /\ inner_translated = << >>
    /\ disk = {}
    /\ limit = 0
    /\ tts_parts = << >>
    /\ tts_i = 0
    /\ generated = << >>
    /\ tts_attempt = 0
    /\ backoff = 0
    /\ manifest = None
    /\ sleeps = << >>
    /\ calls = << >>
    /\ invoked = {}
    /\ aborted_at = 0
    /\ progress = << >>
    /\ synth_invoked = {}
    /\ failed_at = 0
    /\ last_answer = "none"
    /\ SplitIdle
    /\ NormIdle

\* do_translate is False, or the language number is not on the menu
AskNoTranslate ==
    /\ pc = "ask_translate"
    /\ pc' = "ask_limit"
    /\ UNCHANGED <<callerVars, transVars, subVars, ttsVars, logVars, notPipe>>

\* do_translate and a target language (lines 565-589)
AskTranslate ==
    /\ pc = "ask_translate"
    /\ \E tl \in Targets : target_lang' = tl
    /\ pc' = "t_call"
    /\ UNCHANGED <<text, detected_lang, translated>>
    /\ UNCHANGED <<transVars, subVars, ttsVars, logVars, notPipe>>

\* deep_translator cannot be imported (lines 298-302)
TImportFail ==
    /\ pc = "t_call"
    /\ translated' = None
    /\ pc' = "t_returned"
    /\ UNCHANGED <<text, detected_lang, target_lang>>
    /\ UNCHANGED <<transVars, subVars, ttsVars, logVars, notPipe>>

\* normalize, split into chunks, start the loop (lines 304-325)
TEnter ==
    /\ pc = "t_call"
    /\ chunks' = ChunksOf(text)
    /\ translated_parts' = << >>
    /\ idx' = 1
    /\ pc' = "t_chunk"
    /\ UNCHANGED <<ok, attempt, result>>
    /\ UNCHANGED <<callerVars, subVars, ttsVars, logVars, notPipe>>

\* a blank paragraph: append "" and continue (lines 327-329)
TBlankMutDrop ==
    /\ pc = "t_chunk"
    /\ idx <= Len(chunks)
    /\ chunks[idx] = << >>
    /\ idx' = idx + 1
    /\ UNCHANGED <<pc, chunks, translated_parts, ok, attempt, result>>
    /\ UNCHANGED <<callerVars, subVars, ttsVars, logVars, notPipe>>

TBlankMutTranslate ==
    /\ pc = "t_chunk"
    /\ idx <= Len(chunks)
    /\ chunks[idx] = << >>
    /\ calls' = Append(calls, [op |-> "translate", sub |-> 0,
                               len |-> Len(chunks[idx]), whole |-> TRUE,
                               okay |-> TRUE])
    /\ invoked' = invoked \cup {idx}
    /\ translated_parts' =
          Append(translated_parts,
                 normalize_mojibake(Translate(target_lang, chunks[idx])))
    /\ idx' = idx + 1
    /\ UNCHANGED <<pc, chunks, ok, attempt, result>>
    /\ UNCHANGED <<sleeps, aborted_at, progress, synth_invoked, failed_at>>
    /\ UNCHANGED <<callerVars, subVars, ttsVars, notPipe>>
    /\ UNCHANGED last_answer

TBlank ==
    /\ pc = "t_chunk"
    /\ idx <= Len(chunks)
    /\ chunks[idx] = << >>
    /\ translated_parts' = Append(translated_parts, << >>)
    /\ idx' = idx + 1
    /\ UNCHANGED <<pc, chunks, ok, attempt, result>>
    /\ UNCHANGED <<callerVars, subVars, ttsVars, logVars, notPipe>>

\* ok = False; attempt = 0 (lines 331-332)
TStartChunk ==
    /\ pc = "t_chunk"
    /\ idx <= Len(chunks)
    /\ chunks[idx] # << >>
    /\ ok' = FALSE
    /\ attempt' = 0
    /\ sleeps' = << >>
    /\ calls' = << >>
    /\ pc' = "t_try"
    /\ UNCHANGED <<chunks, idx, translated_parts, result, invoked, aborted_at>>
    /\ UNCHANGED <<progress, synth_invoked, failed_at>>
    /\ UNCHANGED <<callerVars, subVars, ttsVars, notPipe>>
    /\ UNCHANGED last_answer

\* an attempt that succeeds: append, leave the while loop, report progress,
\* go to the next chunk (lines 333-343, 389)
TTryOk ==
    /\ pc = "t_try"
    /\ ~ok /\ attempt < TRANSLATE_RETRIES
    /\ attempt' = attempt + 1
    /\ calls' = Append(calls, [op |-> "translate", sub |-> 0,
                               len |-> Len(chunks[idx]), whole |-> TRUE, okay |-> TRUE])
    /\ invoked' = invoked \cup {idx}
    /\ translated_parts' =
          Append(translated_parts,
                 normalize_mojibake(Translate(target_lang, chunks[idx])))
    /\ ok' = TRUE
    /\ idx' = idx + 1
    /\ pc' = "t_chunk"
    /\ progress' = Append(progress, [idx |-> idx, total |-> Len(chunks),
                                   tag |-> "traduzido"])
    /\ UNCHANGED <<chunks, result, sleeps, aborted_at>>
    /\ UNCHANGED <<synth_invoked, failed_at>>
    /\ UNCHANGED <<callerVars, subVars, ttsVars, notPipe>>
    /\ UNCHANGED last_answer

\* an attempt that raises, with attempts left: sleep (lines 344-349)
TTryFailRetryMutMoveOn ==
    /\ pc = "t_try"
    /\ ~ok /\ attempt < TRANSLATE_RETRIES
    /\ attempt + 1 < TRANSLATE_RETRIES
    /\ attempt' = attempt + 1
    /\ calls' = Append(calls, [op |-> "translate", sub |-> 0,
                               len |-> Len(chunks[idx]), whole |-> TRUE,
                               okay |-> FALSE])
    /\ invoked' = invoked \cup {idx}
    /\ sleeps' = Append(sleeps, [op |-> "translate", sub |-> 0,
                                 wait |-> MainWait(attempt + 1)])
    /\ idx' = idx + 1
    /\ pc' = "t_chunk"
    /\ UNCHANGED <<chunks, translated_parts, ok, result, aborted_at>>
    /\ UNCHANGED <<progress, synth_invoked, failed_at>>
    /\ UNCHANGED <<callerVars, subVars, ttsVars, notPipe>>
    /\ UNCHANGED last_answer

TTryFailRetryMutNoCount ==
    /\ pc = "t_try"
    /\ ~ok /\ attempt < TRANSLATE_RETRIES
    /\ attempt + 1 < TRANSLATE_RETRIES
    /\ calls' = Append(calls, [op |-> "translate", sub |-> 0,
                               len |-> Len(chunks[idx]), whole |-> TRUE,
                               okay |-> FALSE])
    /\ invoked' = invoked \cup {idx}
    /\ sleeps' = Append(sleeps, [op |-> "translate", sub |-> 0,
                                 wait |-> MainWait(attempt + 1)])
    /\ UNCHANGED <<pc, chunks, idx, translated_parts, ok, attempt, result>>
    /\ UNCHANGED <<aborted_at, progress, synth_invoked, failed_at, last_answer>>
    /\ UNCHANGED <<callerVars, subVars, ttsVars, notPipe>>

TTryFailRetry ==
    /\ pc = "t_try"
    /\ ~ok /\ attempt < TRANSLATE_RETRIES
    /\ attempt + 1 < TRANSLATE_RETRIES
    /\ attempt' = attempt + 1
    /\ calls' = Append(calls, [op |-> "translate", sub |-> 0,
                               len |-> Len(chunks[idx]), whole |-> TRUE, okay |-> FALSE])
    /\ invoked' = invoked \cup {idx}
    /\ sleeps' = Append(sleeps, [op |-> "translate", sub |-> 0, wait |-> MainWait(attempt + 1)])
    /\ UNCHANGED <<pc, chunks, idx, translated_parts, ok, result, aborted_at>>
    /\ UNCHANGED <<progress, synth_invoked, failed_at>>
    /\ UNCHANGED <<callerVars, subVars, ttsVars, notPipe>>
    /\ UNCHANGED last_answer

\* the last attempt raises: split the chunk when it is long enough, else
\* ask the operator (lines 350-358)
TTryFailLast ==
    /\ pc = "t_try"
    /\ ~ok /\ attempt < TRANSLATE_RETRIES
    /\ attempt + 1 >= TRANSLATE_RETRIES
    /\ attempt' = attempt + 1
    /\ calls' = Append(calls, [op |-> "translate", sub |-> 0,
                               len |-> Len(chunks[idx]), whole |-> TRUE, okay |-> FALSE])
    /\ invoked' = invoked \cup {idx}
    /\ IF Len(chunks[idx]) > SUB_SPLIT_MIN
       THEN /\ smaller' = SmallerOf(chunks[idx])
            /\ inner_translated' = << >>
            /\ sub_j' = 1
            /\ sub_attempt' = 0
            /\ pc' = "t_sub"
       ELSE /\ pc' = "t_prompt"
            /\ UNCHANGED subVars
    /\ UNCHANGED <<chunks, idx, translated_parts, ok, result, sleeps, aborted_at>>
    /\ UNCHANGED <<progress, synth_invoked, failed_at>>
    /\ UNCHANGED <<callerVars, ttsVars, notPipe>>
    /\ UNCHANGED last_answer

\* a piece is translated: go to the next piece, or, after the last one,
\* append the joined pieces and go to the next chunk (lines 359-369, 376-379)
TSubOk ==
    /\ pc = "t_sub"
    /\ sub_attempt < SUB_RETRIES
    /\ calls' = Append(calls, [op |-> "translate", sub |-> sub_j,
                               len |-> Len(smaller[sub_j]),
                               whole |-> smaller[sub_j] = chunks[idx],
                               okay |-> TRUE])
    /\ inner_translated' =
          Append(inner_translated,
                 normalize_mojibake(Translate(target_lang, smaller[sub_j])))
    /\ IF sub_j = Len(smaller)
       THEN /\ translated_parts' =
                  Append(translated_parts, Join(<<10>>, inner_translated'))
            /\ ok' = TRUE
            /\ progress' = Append(progress,
                                  [idx |-> idx, total |-> Len(chunks),
                                   tag |-> "traduzido"])
            /\ idx' = idx + 1
            /\ pc' = "t_chunk"
            /\ UNCHANGED <<sub_j, sub_attempt>>
       ELSE /\ sub_j' = sub_j + 1
            /\ sub_attempt' = 0
            /\ UNCHANGED <<translated_parts, ok, idx, pc, progress>>
    /\ UNCHANGED <<chunks, attempt, result, smaller, sleeps, invoked, aborted_at>>
    /\ UNCHANGED <<synth_invoked, failed_at>>
    /\ UNCHANGED <<callerVars, ttsVars, notPipe>>
    /\ UNCHANGED last_answer

\* a piece raises: sleep; after the third time give the pieces up and ask
\* the operator (lines 370-375)
TSubFailMutNextPiece ==
    /\ pc = "t_sub"
    /\ sub_attempt < SUB_RETRIES
    /\ calls' = Append(calls, [op |-> "translate", sub |-> sub_j,
                               len |-> Len(smaller[sub_j]),
                               whole |-> smaller[sub_j] = chunks[idx],
                               okay |-> FALSE])
    /\ sleeps' = Append(sleeps, [op |-> "translate", sub |-> sub_j,
                                 wait |-> SubWait(sub_attempt + 1)])
    /\ IF sub_attempt + 1 < SUB_RETRIES
       THEN /\ sub_attempt' = sub_attempt + 1
            /\ UNCHANGED <<pc, sub_j>>
       ELSE IF sub_j < Len(smaller)
       THEN /\ sub_j' = sub_j + 1
            /\ sub_attempt' = 0
            /\ UNCHANGED pc
       ELSE /\ sub_attempt' = sub_attempt + 1
            /\ pc' = "t_prompt"
            /\ UNCHANGED sub_j
    /\ UNCHANGED <<smaller, inner_translated>>
    /\ UNCHANGED <<transVars, invoked, aborted_at>>
    /\ UNCHANGED <<progress, synth_invoked, failed_at>>
    /\ UNCHANGED <<callerVars, ttsVars, notPipe>>
    /\ UNCHANGED last_answer

TSubFail ==
    /\ pc = "t_sub"
    /\ sub_attempt < SUB_RETRIES
    /\ sub_attempt' = sub_attempt + 1
    /\ calls' = Append(calls, [op |-> "translate", sub |-> sub_j,
                               len |-> Len(smaller[sub_j]),
                               whole |-> smaller[sub_j] = chunks[idx],
                               okay |-> FALSE])
    /\ sleeps' = Append(sleeps, [op |-> "translate", sub |-> sub_j, wait |-> SubWait(sub_attempt + 1)])
    /\ pc' = IF sub_attempt + 1 < SUB_RETRIES THEN "t_sub" ELSE "t_prompt"
    /\ UNCHANGED <<smaller, sub_j, inner_translated>>
    /\ UNCHANGED <<transVars, invoked, aborted_at>>
    /\ UNCHANGED <<progress, synth_invoked, failed_at>>
    /\ UNCHANGED <<callerVars, ttsVars, notPipe>>
    /\ UNCHANGED last_answer

\* the operator keeps the original text of the chunk (lines 381-384, 389)
TPromptYes ==
    /\ pc = "t_prompt"
    /\ \E ans \in Answers :
          yesno(ans, FALSE) /\ last_answer' = ans
    /\ translated_parts' = Append(translated_parts, chunks[idx])
    /\ ok' = TRUE
    /\ idx' = idx + 1
    /\ pc' = "t_chunk"
    /\ UNCHANGED <<chunks, attempt, result>>
    /\ progress' = Append(progress, [idx |-> idx, total |-> Len(chunks),
                                   tag |-> "traduzido"])
    /\ UNCHANGED <<sleeps, calls, invoked, aborted_at, synth_invoked, failed_at>>
    /\ UNCHANGED <<callerVars, subVars, ttsVars, notPipe>>

\* the operator declines: return None (lines 385-387)
TPromptNoMutGoOn ==
    /\ pc = "t_prompt"
    /\ \E ans \in Answers :
          ~yesno(ans, FALSE) /\ last_answer' = ans
    /\ aborted_at' = idx
    /\ translated_parts' = Append(translated_parts, << >>)
    /\ idx' = idx + 1
    /\ pc' = "t_chunk"
    /\ UNCHANGED <<chunks, ok, attempt, result, sleeps, calls, invoked>>
    /\ UNCHANGED <<progress, synth_invoked, failed_at>>
    /\ UNCHANGED <<callerVars, subVars, ttsVars, notPipe>>

TPromptNo ==
    /\ pc = "t_prompt"
    /\ \E ans \in Answers :
          ~yesno(ans, FALSE) /\ last_answer' = ans
    /\ aborted_at' = idx
    /\ translated' = None
    /\ NoFrame
    /\ pc' = "t_returned"
    /\ UNCHANGED <<text, detected_lang, target_lang>>
    /\ UNCHANGED <<sleeps, calls, invoked>>
    /\ UNCHANGED <<progress, synth_invoked, failed_at>>
    /\ UNCHANGED <<ttsVars, notPipe>>

\* the loop is over: result = "\n\n".join(translated_parts) (lines 390-393)
TJoin ==
    /\ pc = "t_chunk"
    /\ idx > Len(chunks)
    /\ result' = Join(<<10, 10>>, translated_parts)
    /\ pc' = "t_joined"
    /\ UNCHANGED <<chunks, idx, translated_parts, ok, attempt>>
    /\ UNCHANGED <<callerVars, subVars, ttsVars, logVars, notPipe>>

\* return result (line 394)
TReturn ==
    /\ pc = "t_joined"
    /\ translated' = result
    /\ NoFrame
    /\ pc' = "t_returned"
    /\ UNCHANGED <<text, detected_lang, target_lang>>
    /\ UNCHANGED <<ttsVars, logVars, notPipe>>

\* translated is a string: it replaces the text (lines 597-600)
CallerAcceptMutKeepLang ==
    /\ pc = "t_returned"
    /\ translated # None
    /\ text' = translated
    /\ pc' = "ask_limit"
    /\ UNCHANGED <<detected_lang, target_lang, translated>>
    /\ UNCHANGED <<transVars, subVars, ttsVars, logVars, notPipe>>

CallerAccept ==
    /\ pc = "t_returned"
    /\ translated # None
    /\ text' = translated
    /\ detected_lang' = target_lang
    /\ pc' = "ask_limit"
    /\ UNCHANGED <<target_lang, translated>>
    /\ UNCHANGED <<transVars, subVars, ttsVars, logVars, notPipe>>

\* translated is None and the operator goes on without translation
\* (lines 590-596)
CallerGoOn ==
    /\ pc = "t_returned"
    /\ translated = None
    /\ \E ans \in Answers : yesno(ans, FALSE)
    /\ pc' = "ask_limit"
    /\ UNCHANGED <<callerVars, transVars, subVars, ttsVars, logVars, notPipe>>

\* translated is None and the operator stops (lines 590-594)
CallerStop ==
    /\ pc = "t_returned"
    /\ translated = None
    /\ \E ans \in Answers : ~yesno(ans, FALSE)
    /\ pc' = "exit"
    /\ UNCHANGED <<callerVars, transVars, subVars, ttsVars, logVars, notPipe>>

\* a limit is typed and accepted, the text is split (lines 676-695)
AskLimit ==
    /\ pc = "ask_limit"
    /\ \E lim \in TtsLimits :
          /\ FitsParts(Strip(text), lim, MaxParts)
          /\ limit' = lim
          /\ tts_parts' = split_text_preserve_sentences(text, lim)
    /\ pc' = IF tts_parts' = << >> THEN "exit" ELSE "confirm"
    /\ UNCHANGED <<disk, tts_i, generated, tts_attempt, backoff, manifest>>
    /\ UNCHANGED <<callerVars, transVars, subVars, logVars, notPipe>>

\* the operator does not start the generation (lines 696-698)
ConfirmNo ==
    /\ pc = "confirm"
    /\ \E ans \in Answers : ~yesno(ans, TRUE)
    /\ pc' = "exit"
    /\ UNCHANGED <<callerVars, transVars, subVars, ttsVars, logVars, notPipe>>

\* the operator starts it; out_dir may hold part files of an earlier run,
\* of which those of the parts of this run matter (lines 661-672, 696-702)
ConfirmYes ==
    /\ pc = "confirm"
    /\ \E ans \in Answers : yesno(ans, TRUE)
    /\ disk' \in SUBSET (1..Len(tts_parts))
    /\ generated' = << >>
    /\ tts_i' = 1
    /\ pc' = "s_loop"
    /\ UNCHANGED <<limit, tts_parts, tts_attempt, backoff, manifest>>
    /\ UNCHANGED <<callerVars, transVars, subVars, logVars, notPipe>>

\* the part file exists: skip it (lines 703-709)
SSkipMutForget ==
    /\ pc = "s_loop"
    /\ tts_i <= Len(tts_parts)
    /\ tts_i \in disk
    /\ tts_i' = tts_i + 1
    /\ UNCHANGED <<pc, disk, limit, tts_parts, generated, tts_attempt, backoff,
                   manifest>>
    /\ UNCHANGED <<callerVars, transVars, subVars, logVars, notPipe>>

SSkip ==
    /\ pc = "s_loop"
    /\ tts_i <= Len(tts_parts)
    /\ tts_i \in disk
    /\ generated' = Append(generated, PartName(tts_i))
    /\ tts_i' = tts_i + 1
    /\ UNCHANGED <<pc, disk, limit, tts_parts, tts_attempt, backoff, manifest>>
    /\ UNCHANGED <<callerVars, transVars, subVars, logVars, notPipe>>

\* save_part_with_retries is called: backoff = INITIAL_BACKOFF
\* (lines 710-711, 398)
SStart ==
    /\ pc = "s_loop"
    /\ tts_i <= Len(tts_parts)
    /\ tts_i \notin disk
    /\ backoff' = INITIAL_BACKOFF
    /\ tts_attempt' = 0
    /\ sleeps' = << >>
    /\ calls' = << >>
    /\ pc' = "s_try"
    /\ UNCHANGED <<disk, limit, tts_parts, tts_i, generated, manifest>>
    /\ UNCHANGED <<invoked, aborted_at, progress, synth_invoked, failed_at>>
    /\ UNCHANGED <<callerVars, transVars, subVars, notPipe>>
    /\ UNCHANGED last_answer

\* communicator.save succeeds: return True, append the path, next part
\* (lines 399-404, 712-718)
SSaveOk ==
    /\ pc = "s_try"
    /\ tts_attempt < MAX_RETRIES
    /\ tts_attempt' = tts_attempt + 1
    /\ calls' = Append(calls, [op |-> "save", sub |-> 0,
                               len |-> Len(tts_parts[tts_i]), whole |-> TRUE, okay |-> TRUE])
    /\ disk' = disk \cup {tts_i}
    /\ generated' = Append(generated, PartName(tts_i))
    /\ tts_i' = tts_i + 1
    /\ pc' = "s_loop"
    /\ UNCHANGED <<limit, tts_parts, backoff, manifest>>
    /\ synth_invoked' = synth_invoked \cup {tts_i}
    /\ UNCHANGED <<sleeps, invoked, aborted_at, progress, failed_at>>
    /\ UNCHANGED <<callerVars, transVars, subVars, notPipe>>
    /\ UNCHANGED last_answer

\* communicator.save raises, perhaps after creating the file; with attempts
\* left: sleep and double the backoff (lines 405-414)
SSaveFailRetry ==
    /\ pc = "s_try"
    /\ tts_attempt + 1 < MAX_RETRIES
    /\ tts_attempt' = tts_attempt + 1
    /\ calls' = Append(calls, [op |-> "save", sub |-> 0,
                               len |-> Len(tts_parts[tts_i]), whole |-> TRUE, okay |-> FALSE])
    /\ \E left \in BOOLEAN : disk' = IF left THEN disk \cup {tts_i} ELSE disk
    /\ sleeps' = Append(sleeps, [op |-> "save", sub |-> 0, wait |-> backoff])
    /\ backoff' = backoff * 2
    /\ UNCHANGED <<pc, limit, tts_parts, tts_i, generated, manifest>>
    /\ synth_invoked' = synth_invoked \cup {tts_i}
    /\ UNCHANGED <<invoked, aborted_at, progress, failed_at>>
    /\ UNCHANGED <<callerVars, transVars, subVars, notPipe>>
    /\ UNCHANGED last_answer

\* the last attempt raises: return False, and the run is given up
\* (lines 405-409, 415-416, 712-715)
SSaveFailLastMutGoOn ==
    /\ pc = "s_try"
    /\ tts_attempt < MAX_RETRIES
    /\ tts_attempt + 1 >= MAX_RETRIES
    /\ tts_attempt' = tts_attempt + 1
    /\ calls' = Append(calls, [op |-> "save", sub |-> 0,
                               len |-> Len(tts_parts[tts_i]), whole |-> TRUE,
                               okay |-> FALSE])
    /\ \E left \in BOOLEAN : disk' = IF left THEN disk \cup {tts_i} ELSE disk
    /\ synth_invoked' = synth_invoked \cup {tts_i}
    /\ failed_at' = tts_i
    /\ tts_i' = tts_i + 1
    /\ pc' = "s_loop"
    /\ UNCHANGED <<limit, tts_parts, generated, backoff, manifest>>
    /\ UNCHANGED <<sleeps, invoked, aborted_at, progress>>
    /\ UNCHANGED <<callerVars, transVars, subVars, notPipe>>
    /\ UNCHANGED last_answer

SSaveFailLast ==
    /\ pc = "s_try"
    /\ tts_attempt < MAX_RETRIES
    /\ tts_attempt + 1 >= MAX_RETRIES
    /\ tts_attempt' = tts_attempt + 1
    /\ calls' = Append(calls, [op |-> "save", sub |-> 0,
                               len |-> Len(tts_parts[tts_i]), whole |-> TRUE, okay |-> FALSE])
    /\ \E left \in BOOLEAN : disk' = IF left THEN disk \cup {tts_i} ELSE disk
    /\ pc' = "exit"
    /\ UNCHANGED <<limit, tts_parts, tts_i, generated, backoff, manifest>>
    /\ synth_invoked' = synth_invoked \cup {tts_i}
    /\ failed_at' = tts_i
    /\ UNCHANGED <<sleeps, invoked, aborted_at, progress>>
    /\ UNCHANGED <<callerVars, transVars, subVars, notPipe>>
    /\ UNCHANGED last_answer

\* every part is there: write list.txt from the sorted names (lines 719-727)
SManifest ==
    /\ pc = "s_loop"
    /\ tts_i > Len(tts_parts)
    /\ manifest' = Sorted(generated)
    /\ pc' = "join_audio"
    /\ UNCHANGED <<disk, limit, tts_parts, tts_i, generated, tts_attempt, backoff>>
    /\ UNCHANGED <<callerVars, transVars, subVars, logVars, notPipe>>

Next ==
    \/ AskNoTranslate \/ AskTranslate
    \/ TImportFail \/ TEnter \/ TBlank \/ TStartChunk
    \/ TTryOk \/ TTryFailRetry \/ TTryFailLast
    \/ TSubOk \/ TSubFail
    \/ TPromptYes \/ TPromptNo
    \/ TJoin \/ TReturn
    \/ CallerAccept \/ CallerGoOn \/ CallerStop
    \/ AskLimit \/ ConfirmNo \/ ConfirmYes
    \/ SSkip \/ SStart \/ SSaveOk \/ SSaveFailRetry \/ SSaveFailLast
    \/ SManifest

Spec == Init /\ [][Next]_vars

-----------------------------------------------------------------------------
(* A long batch: the text is BatchParts characters and the limit typed is 1,
   so there are BatchParts parts; out_dir holds the file of every part, left
   by an earlier run, and the loop of lines 702-709 goes over them *)

BatchParts == 1000

BatchInit ==
    /\ pc = "s_loop"
    /\ text = Rep(97, BatchParts)
    /\ detected_lang = "en"
    /\ target_lang = "none"
    /\ translated = None
    /\ chunks = << >>
    /\ idx = 0
    /\ translated_parts = << >>
    /\ ok = FALSE
    /\ attempt = 0
    /\ result = None
    /\ smaller = << >>
    /\ sub_j = 0
    /\ sub_attempt = 0
    /\ inner_translated = << >>
    /\ limit = 1
    \* split_text_preserve_sentences(text, 1): one part per character
    /\ tts_parts = SubSeq([k \in 1..BatchParts |-> <<text[k]>>], 1, BatchParts)
    /\ disk = 1..Len(tts_parts)
    /\ tts_i = 1
    /\ generated = << >>
    /\ tts_attempt = 0
    /\ backoff = 0
    /\ manifest = None
    /\ sleeps = << >>
    /\ calls = << >>
    /\ invoked = {}
    /\ aborted_at = 0
    /\ progress = << >>
    /\ synth_invoked = {}
    /\ failed_at = 0
    /\ last_answer = "none"
    /\ SplitIdle
    /\ NormIdle

BatchNext == SSkip \/ SManifest

SpecBatch == BatchInit /\ [][BatchNext]_vars

-----------------------------------------------------------------------------
(* Properties of the segmenter *)

RECURSIVE Concat(_)
Concat(ps) == IF ps = << >> THEN << >> ELSE Head(ps) \o Concat(Tail(ps))

NoSpace(s) == SelectSeq(s, LAMBDA c : ~IsSpace(c))

IsPrefixOf(p, s) == Len(p) <= Len(s) /\ SubSeq(s, 1, Len(p)) = p

\* ps are consecutive pieces of t, left to right, with only whitespace
\* before, between and after them
RECURSIVE Covers(_, _)
Covers(t, ps) ==
    IF ps = << >> THEN \A i \in DOMAIN t : IsSpace(t[i])
    ELSE LET u == LStrip(t)
         IN  /\ IsPrefixOf(Head(ps), u)
             /\ Covers(SubSeq(u, Len(Head(ps)) + 1, Len(u)), Tail(ps))

\* 1-based position of the rightmost marker among the first n characters
\* of t (0 when there is none)
RightmostMarker(t, n) ==
    LET hits == {i \in 1..Min(n, Len(t)) : t[i] \in Markers}
    IN  IF hits = {} THEN 0 ELSE SetMax(hits)

\* C1: every segment emitted by split_text_preserve_sentences(text, limit),
\* limit > 0, has length at most limit, hard-cut segments included.
C1_SegmentsWithinLimit ==
    \A i \in DOMAIN sp_parts : Len(sp_parts[i]) <= sp_limit

\* a finished split of a text with no marker in its first limit characters:
\* the first segment is a hard cut of exactly limit characters
C1_Witness ==
    /\ sp_pc = "done"
    /\ Len(sp_parts) >= 2
    /\ RightmostMarker(Strip(sp_in), sp_limit) = 0
    /\ Len(sp_parts[1]) = sp_limit

\* C2: when the text is longer than limit and a marker lies within its first
\* limit characters, the first segment is the text up to and including the
\* rightmost such marker; "Hello world. This is a test." with limit 15 gives
\* exactly "Hello world." and "This is a test.".
C2_CutKeepsMarker ==
    sp_pc = "done" =>
        LET t == Strip(sp_in)
            m == RightmostMarker(t, sp_limit)
        IN  /\ (Len(t) > sp_limit /\ m > 0) =>
                    /\ sp_parts[1] = Strip(SubSeq(t, 1, m))
                    /\ Len(sp_parts) >= 2 =>
                           IsPrefixOf(sp_parts[2], LStrip(SubSeq(t, m + 1, Len(t))))
            /\ (sp_in = ScenarioA /\ sp_limit = 15) =>
                    sp_parts = <<ScenarioA1, ScenarioA2>>

\* C3: the segments are consecutive, non-overlapping pieces of the stripped
\* input, left to right, and only whitespace at the cut points is left out:
\* the segments joined, whitespace deleted, are the input, whitespace deleted.
C3_Lossless ==
    /\ sp_pc # "call" =>
          NoSpace(Concat(sp_parts) \o (IF sp_pc = "loop" THEN sp_text ELSE << >>))
              = NoSpace(sp_in)
    /\ sp_pc = "loop" => Covers(sp_in, Append(sp_parts, sp_text))
    /\ sp_pc = "done" => Covers(sp_in, sp_parts)

\* a finished split in several segments that left whitespace out at a cut
C3_Witness ==
    /\ sp_pc = "done"
    /\ Len(sp_parts) >= 2
    /\ Len(Concat(sp_parts)) < Len(Strip(sp_in))

\* C4: every iteration takes at least one character off the remaining text,
\* so the loop ends within len(text) iterations (iterations run plus
\* characters left never exceed the length of the stripped input), no segment
\* is empty, and an empty or whitespace-only input gives the empty sequence.
C4_Progress ==
    /\ sp_pc = "loop" => sp_iters + Len(sp_text) <= Len(Strip(sp_in))
    /\ sp_pc = "done" => sp_iters <= Len(Strip(sp_in))
    /\ \A i \in DOMAIN sp_parts : sp_parts[i] # << >>
    /\ (sp_pc = "done" /\ Strip(sp_in) = << >>) => sp_parts = << >>

\* a finished split that needed one iteration per character
C4_Witness ==
    /\ sp_pc = "done"
    /\ Len(sp_in) >= 3
    /\ sp_iters = Len(sp_in)

-----------------------------------------------------------------------------
(* Properties of the normalizer *)

\* C5: normalize_mojibake is idempotent: applied to its own result it
\* changes nothing, also when a replacement or the Latin-1 re-decode has
\* produced a key of the table.
C5_Idempotent == nm_pc = "twice" => nm_twice = nm_once


\* ---------------------------------------------------------------------
\* The translation loop and the retry loops
\* ---------------------------------------------------------------------

\* the states inside safe_translate_text_chunks
InTranslation == pc \in {"t_chunk", "t_try", "t_sub", "t_prompt", "t_joined"}

\* the normalized translations of the pieces of a chunk, joined by "\n"
SubSplitResult(chunk) ==
    LET sm == SmallerOf(chunk)
    IN  Join(<<10>>, [j \in 1..Len(sm) |->
                        normalize_mojibake(Translate(target_lang, sm[j]))])

\* entry is one of the results the chunk can have
ProducedFrom(entry, chunk) ==
    IF chunk = << >>
    THEN entry = << >>
    ELSE \/ entry = normalize_mojibake(Translate(target_lang, chunk))
         \/ Len(chunk) > SUB_SPLIT_MIN /\ entry = SubSplitResult(chunk)
         \/ entry = chunk

\* C6: between two chunks translated_parts holds one entry per chunk
\* processed so far, and the string that is returned is the "\n\n" join of
\* one entry per chunk, the i-th entry being the translation of the i-th
\* chunk, its joined sub-split translations, its original text, or "" for
\* a blank chunk, however many attempts each chunk took.
C6_OneEntryPerChunkInOrder ==
    /\ pc \in {"t_chunk", "t_try", "t_sub", "t_prompt"} =>
          Len(translated_parts) = idx - 1
    /\ pc = "t_joined" =>
          /\ result = Join(<<10, 10>>, translated_parts)
          /\ Len(translated_parts) = Len(chunks)
          /\ \A i \in 1..Len(chunks) :
                ProducedFrom(translated_parts[i], chunks[i])

\* a four-chunk document is returned: the first chunk translated, the
\* second blank, the third kept as it was, the fourth translated after
\* failed attempts
C6_Witness ==
    /\ pc = "t_joined"
    /\ text = DocShort
    /\ Len(chunks) = 4
    /\ translated_parts[1] = <<72, 73, 46>>
    /\ chunks[2] = << >> /\ translated_parts[2] = << >>
    /\ translated_parts[3] = chunks[3]
    /\ translated_parts[4] = <<79, 75>>
    /\ Len(calls) = 3 /\ calls[3].okay

\* the number of calls of the log that were made with the text of the
\* whole chunk or part
WholeCalls(o) ==
    Cardinality({k \in DOMAIN calls : calls[k].op = o /\ calls[k].whole})

\* C7: translate is called with the text of one chunk at most
\* TRANSLATE_RETRIES times and save for one part at most MAX_RETRIES times,
\* and no call on that text follows a call that succeeded.
C7_AttemptsWithinMaximum ==
    /\ WholeCalls("translate") <= TRANSLATE_RETRIES
    /\ WholeCalls("save") <= MAX_RETRIES
    /\ \A k \in DOMAIN calls :
          calls[k].whole /\ calls[k].okay => k = Len(calls)

\* C8 as stated: the waits of one chunk or part, in the order they are
\* slept, never get shorter, the sub-split waits after the main ones
\* included.
C8_BackoffNonDecreasing ==
    \A k \in 1..(Len(sleeps) - 1) : sleeps[k].wait <= sleeps[k + 1].wait

\* the position of the k-th sleep within its retry loop
RankInLoop(k) ==
    Cardinality({m \in 1..k : sleeps[m].sub = sleeps[k].sub})

\* C8: within each retry loop the waits never get shorter: the r-th wait
\* of the main loop of a chunk or of a part is base * 2^(r-1) seconds,
\* the r-th wait of a sub-split piece is 0.5 * r seconds (waits are in
\* half seconds here).
C8_BackoffNonDecreasingPerLoop ==
    \A k \in 1..Len(sleeps) :
       /\ (k < Len(sleeps) /\ sleeps[k].sub = sleeps[k + 1].sub) =>
             sleeps[k].wait <= sleeps[k + 1].wait
       /\ sleeps[k].wait =
             IF sleeps[k].sub > 0 THEN RankInLoop(k)
             ELSE IF sleeps[k].op = "translate"
                  THEN TRANSLATE_BACKOFF * Pow2(RankInLoop(k) - 1)
                  ELSE INITIAL_BACKOFF * Pow2(RankInLoop(k) - 1)

\* the three waits of the main loop, then two waits for a sub-split piece
C8_Witness ==
    /\ pc = "t_sub"
    /\ Len(sleeps) = 5
    /\ sleeps[3].sub = 0 /\ sleeps[3].wait = 8
    /\ sleeps[4].sub = 1 /\ sleeps[5].sub = 1

\* C9: once the operator has declined at chunk k the function has returned
\* None, there is no joined string, and translate has been called for no
\* chunk after k, nor is it called again.
C9_AbortStopsEverything ==
    aborted_at > 0 =>
       /\ translated = None
       /\ result = None
       /\ ~InTranslation
       /\ aborted_at \in invoked
       /\ \A i \in invoked : i <= aborted_at

\* the operator declines at the third of four chunks
C9_Witness ==
    /\ aborted_at = 3
    /\ text = DocShort
    /\ pc = "t_returned"
    /\ invoked = {1, 3}
    /\ Len(calls) = TRANSLATE_RETRIES
    /\ \A k \in DOMAIN calls : ~calls[k].okay

\* C10: after an abort at chunk k the caller still has the results of
\* the chunks 1..k-1.
C10_PartialResultsRetained ==
    (pc = "t_returned" /\ aborted_at > 1) =>
       \/ Len(translated_parts) = aborted_at - 1
       \/ translated # None

\* C11: a blank chunk is never given to translate and has the entry "" at
\* its own position in translated_parts, and no text given to translate,
\* whole chunk or sub-split piece, is empty.
C11_BlankChunkKeptNotTranslated ==
    /\ \A k \in DOMAIN calls :
          calls[k].op = "translate" => calls[k].len > 0
    /\ InTranslation =>
          /\ \A i \in invoked : chunks[i] # << >>
          /\ \A i \in 1..Len(chunks) :
                (i < idx /\ chunks[i] = << >>) =>
                   /\ i <= Len(translated_parts)
                   /\ translated_parts[i] = << >>
          /\ pc = "t_sub" => \A j \in DOMAIN smaller : smaller[j] # << >>

\* the blank second chunk of four has its entry and was not translated,
\* the others were
C11_Witness ==
    /\ pc = "t_joined"
    /\ Len(chunks) = 4
    /\ chunks[2] = << >>
    /\ translated_parts[2] = << >>
    /\ invoked = {1, 3, 4}

\* C12: when translate returns every chunk unchanged, the string that is
\* returned has as many paragraphs (pieces between "\n\n") as the
\* normalized source.
C12_ParagraphStructureKept ==
    (pc = "t_joined" /\ target_lang = "en" /\ aborted_at = 0) =>
       Len(SplitParagraphs(result)) =
          Len(SplitParagraphs(normalize_mojibake(text)))

\* C13: once save has failed MAX_RETRIES times for part k the run is over:
\* there is no prompt and no further step, save has been called for no
\* part after k, and list.txt is not written.
C13_SynthesisFailureHaltsBatch ==
    failed_at > 0 =>
       /\ pc = "exit"
       /\ manifest = None
       /\ failed_at = tts_i
       /\ \A i \in synth_invoked : i <= failed_at
       /\ Len(generated) = failed_at - 1
       /\ WholeCalls("save") = MAX_RETRIES
       /\ \A k \in DOMAIN calls : ~calls[k].okay

\* the second of three parts fails six times after the first was saved
C13_Witness ==
    /\ failed_at = 2
    /\ Len(tts_parts) = 3
    /\ synth_invoked = {1, 2}
    /\ pc = "exit"

\* the manifest of a run that finds no part file in out_dir
ScratchManifest == Sorted([i \in 1..Len(tts_parts) |-> PartName(i)])

\* C14: whatever part files are in out_dir at the start, save is never
\* called for a part whose file exists, and the manifest that is written is
\* the one of a run that starts with none.
C14_ResumeSameManifest ==
    /\ [](pc = "join_audio" => manifest = ScratchManifest)
    /\ [][\A i \in synth_invoked' \ synth_invoked : i \notin disk]_vars

\* three parts, the second was there already: save was called for the
\* first and the third only
C14_Witness ==
    /\ pc = "join_audio"
    /\ Len(tts_parts) = 3
    /\ synth_invoked = {1, 3}
    /\ disk = {1, 2, 3}
    /\ manifest = <<PartName(1), PartName(2), PartName(3)>>

\* C15: when every part is there the manifest lists the N part files, one
\* per index, in the order of the indices 1..N.
C15_ManifestInIndexOrder ==
    pc = "join_audio" =>
       manifest = [i \in 1..Len(tts_parts) |-> PartName(i)]

\* C16: update_progress_line is called once after every chunk, blank ones
\* included: between two chunks the progress log has one entry for each
\* chunk processed so far, with its index and the total.
C16_ProgressAfterEveryChunk ==
    pc \in {"t_chunk", "t_joined"} =>
       /\ Len(progress) = idx - 1
       /\ \A i \in 1..Len(progress) :
             progress[i].idx = i /\ progress[i].total = Len(chunks)

\* C17: called with a limit that is not positive on a text that has a
\* character other than white space, the segmenter does not go through the loop, emits no segment and
\* does not return a list.
C17_BadLimitFailsFast ==
    (sp_limit <= 0 /\ Strip(sp_in) # << >>) =>
       /\ sp_iters = 0
       /\ sp_parts = << >>
       /\ sp_pc # "done"

\* the chunks before idx have their entry, the parts before tts_i their file
TerminalBefore ==
    /\ InTranslation =>
          /\ Len(translated_parts) >= idx - 1
          /\ \A i \in invoked : i <= idx
    /\ pc \in {"s_loop", "s_try"} =>
          /\ Len(generated) = tts_i - 1
          /\ \A i \in 1..(tts_i - 1) : i \in disk
          /\ \A i \in synth_invoked : i <= tts_i

\* C18: translate and save are called in the order of the indices, and a
\* call for an index is made only when every chunk or part before it has
\* its outcome: an entry in translated_parts, or a part file in out_dir
\* and its path in generated (after an abort there is no call at all).
C18_SequentialInIndexOrder ==
    /\ []TerminalBefore
    /\ [][/\ \A i \in invoked' \ invoked : \A h \in invoked : h < i
          /\ \A i \in synth_invoked' \ synth_invoked :
                \A h \in synth_invoked : h < i
          /\ (calls' # calls /\ calls' # << >>) =>
                /\ calls'[Len(calls')].op = "translate" =>
                      /\ aborted_at = 0
                      /\ idx \in invoked'
                      /\ Len(translated_parts) = idx - 1
                /\ calls'[Len(calls')].op = "save" =>
                      /\ failed_at = 0
                      /\ tts_i \in synth_invoked'
                      /\ Len(generated) = tts_i - 1]_vars

\* the fourth chunk is being tried after the first was translated, the
\* second was blank and the third was kept as it was
C18_Witness ==
    /\ pc = "t_try"
    /\ idx = 4
    /\ invoked = {1, 3, 4}
    /\ Len(translated_parts) = 3
    /\ Len(calls) = 2

\* the text that remains is longer than the limit and has no boundary
\* marker in its first limit characters
HardCutCase ==
    /\ sp_pc = "loop"
    /\ Len(sp_text) > sp_limit
    /\ \A k \in 1..sp_limit : sp_text[k] \notin Markers

\* C19 as stated: in that case the segment emitted is exactly the first
\* limit characters.
C19_HardCutExactlyLimit ==
    [][HardCutCase =>
          sp_parts' = Append(sp_parts, SubSeq(sp_text, 1, sp_limit))]_vars

\* C19: in that case the segment emitted is the first limit characters
\* with the white space at their end taken off, so it has exactly limit
\* characters when the last of them is no white space, and the run goes on
\* with the characters after them, leading white space taken off.
C19_HardCutAtLimitTrimmed ==
    [][HardCutCase =>
          /\ sp_parts' =
                Append(sp_parts, Strip(SubSeq(sp_text, 1, sp_limit)))
          /\ ~IsSpace(sp_text[sp_limit]) =>
                Len(sp_parts'[Len(sp_parts')]) = sp_limit
          /\ sp_text' =
                LStrip(SubSeq(sp_text, sp_limit + 1, Len(sp_text)))]_vars

\* "a aaa" with limit 2: the hard cut after "a " gives the segment "a"
C19_Witness ==
    /\ sp_in = <<97, 32, 97, 97, 97>>
    /\ sp_limit = 2
    /\ sp_parts = <<<<97>>>>
    /\ sp_text = <<97, 97, 97>>

\* the first TRANSLATE_RETRIES calls of the log are failed calls on the
\* whole chunk
MainFailed(log) ==
    /\ Len(log) >= TRANSLATE_RETRIES
    /\ \A k \in 1..TRANSLATE_RETRIES : log[k].sub = 0 /\ ~log[k].okay

\* the failed calls of the log on piece j, and whether a call on it
\* succeeded
SubFailures(log, j) ==
    Cardinality({k \in DOMAIN log : log[k].sub = j /\ ~log[k].okay})

SubSucceeded(log, j) ==
    \E k \in DOMAIN log : log[k].sub = j /\ log[k].okay

\* where the handling of a chunk stands after its main attempts
RecoveryState ==
    /\ pc = "t_sub" =>
          /\ MainFailed(calls)
          /\ Len(chunks[idx]) > SUB_SPLIT_MIN
          /\ \A j \in DOMAIN smaller : SubFailures(calls, j) < SUB_RETRIES
    /\ pc = "t_prompt" =>
          /\ MainFailed(calls)
          /\ \/ /\ Len(chunks[idx]) <= SUB_SPLIT_MIN
                /\ Len(calls) = TRANSLATE_RETRIES
             \/ /\ Len(chunks[idx]) > SUB_SPLIT_MIN
                /\ SubFailures(calls, sub_j) = SUB_RETRIES
                /\ ~SubSucceeded(calls, sub_j)
                /\ \A k \in DOMAIN calls : calls[k].sub <= sub_j
                /\ \A j \in 1..(sub_j - 1) : SubSucceeded(calls, j)

\* C20: after the failed main attempts a chunk of more than 1000
\* characters whose pieces are all translated within 3 attempts each gets
\* the joined translations of the pieces without a prompt; the operator is
\* asked exactly when the chunk has at most 1000 characters or a piece has
\* failed 3 times, and then no other piece is tried and the entry, if the
\* chunk is kept, is the original chunk.
C20_SubSplitThenPrompt ==
    /\ []RecoveryState
    /\ [][/\ (pc = "t_try" /\ MainFailed(calls')) =>
                pc' = IF Len(chunks[idx]) > SUB_SPLIT_MIN
                      THEN "t_sub" ELSE "t_prompt"
          /\ (pc = "t_sub" /\ pc' = "t_chunk") =>
                /\ \A j \in DOMAIN smaller : SubSucceeded(calls', j)
                /\ translated_parts' =
                      Append(translated_parts, SubSplitResult(chunks[idx]))
          /\ (pc = "t_sub" /\ SubFailures(calls', sub_j) = SUB_RETRIES) =>
                pc' = "t_prompt"
          /\ (pc = "t_sub" /\ pc' = "t_prompt") =>
                SubFailures(calls', sub_j) = SUB_RETRIES
          /\ pc = "t_prompt" =>
                /\ calls' = calls
                /\ \/ /\ pc' = "t_chunk"
                      /\ translated_parts' =
                            Append(translated_parts, chunks[idx])
                   \/ pc' = "t_returned" /\ translated' = None]_vars

\* the second of two pieces has failed three times after the first was
\* translated, and the operator is asked
C20_Witness ==
    /\ pc = "t_prompt"
    /\ Len(smaller) = 2
    /\ sub_j = 2
    /\ Len(inner_translated) = 1
    /\ Len(calls) = TRANSLATE_RETRIES + 1 + SUB_RETRIES

\* C21: when the sub-split recovery is taken the chunk is split into at
\* least two pieces, each shorter than the chunk.
C21_SubSplitMakesSmallerPieces ==
    pc = "t_sub" =>
       /\ Len(smaller) >= 2
       /\ \A j \in DOMAIN smaller : Len(smaller[j]) < Len(chunks[idx])

\* C22: every text given to translate has at most MAX_TRANSLATE_CHARS
\* characters, no chunk is longer than that, and a sub-split piece has at
\* most max(1000, MAX_TRANSLATE_CHARS // 3) characters.
C22_TranslatedTextWithinLimit ==
    /\ \A k \in DOMAIN calls :
          calls[k].op = "translate" =>
             /\ calls[k].len <= MAX_TRANSLATE_CHARS
             /\ calls[k].sub > 0 =>
                   calls[k].len <= Max(1000, MAX_TRANSLATE_CHARS \div 3)
    /\ \A i \in DOMAIN chunks : Len(chunks[i]) <= MAX_TRANSLATE_CHARS

\* a paragraph of MAX_TRANSLATE_CHARS + 1 characters: its first chunk, as
\* long as the limit allows, was sent whole and then as pieces of 1500
C22_Witness ==
    /\ text = DocOverMax
    /\ Len(chunks) = 2
    /\ idx = 1
    /\ \E k \in DOMAIN calls :
          calls[k].sub = 0 /\ calls[k].len = MAX_TRANSLATE_CHARS
    /\ \E k \in DOMAIN calls : calls[k].sub = 3 /\ calls[k].len = 1500

\* the entry is what translation gives for the chunk
TranslationOf(entry, chunk) ==
    IF chunk = << >>
    THEN entry = << >>
    ELSE \/ entry = normalize_mojibake(Translate(target_lang, chunk))
         \/ Len(chunk) > SUB_SPLIT_MIN /\ entry = SubSplitResult(chunk)

\* C23: the original text of a chunk is appended as its entry only at the
\* prompt, which is reached only when the attempts (and the pieces, for a
\* chunk that has them) have failed, and only on an answer that is a yes;
\* the entry is then the chunk as it is.  Any other answer, the empty one
\* included, makes the function return None.  Every other entry is what
\* translation gave.
C23_OriginalOnlyByConsent ==
    /\ [](pc = "t_prompt" => RecoveryState)
    /\ [](aborted_at > 0 => last_answer \notin YesWords)
    /\ [][/\ pc = "t_prompt" =>
                \/ /\ last_answer' \in YesWords
                   /\ translated_parts' =
                         Append(translated_parts, chunks[idx])
                   /\ pc' = "t_chunk"
                \/ /\ last_answer' \notin YesWords
                   /\ translated' = None
                   /\ pc' = "t_returned"
          /\ (pc \in {"t_chunk", "t_try", "t_sub"}
                /\ translated_parts' # translated_parts) =>
                \E e \in {translated_parts'[Len(translated_parts')]} :
                   /\ translated_parts' = Append(translated_parts, e)
                   /\ TranslationOf(e, chunks[idx])]_vars

\* the empty line was typed at the prompt for the third chunk: the
\* translation was given up there
C23_Witness ==
    /\ last_answer = ""
    /\ aborted_at = 3
    /\ translated = None
    /\ pc = "t_returned"

\* the states of the synthesis stage
InSynthesis == pc \in {"ask_limit", "confirm", "s_loop", "s_try", "join_audio"}

\* C24: the text and the language tag change in one step only, when the
\* translation has returned a string: the text becomes that string, which
\* is the join of all the entries, and the tag the target language.  When
\* the translation has returned None they stay what they were, and the
\* parts that are synthesized are the parts of the text as it then is.
C24_DocumentReplacedWholesale ==
    /\ [](pc = "confirm" =>
             tts_parts = split_text_preserve_sentences(text, limit))
    /\ []((InSynthesis /\ translated = None) =>
             text \in Docs /\ detected_lang = "en")
    /\ [][/\ pc = "t_joined" => translated' = result
          /\ pc \in {"confirm", "s_loop", "s_try"} => tts_parts' = tts_parts
          /\ IF pc = "t_returned" /\ translated # None /\ aborted_at = 0
             THEN text' = translated /\ detected_lang' = target_lang
             ELSE text' = text /\ detected_lang' = detected_lang]_vars

\* the translation was given up at the third chunk, after the first was
\* translated, and the parts to synthesize are those of the original text
C24_Witness ==
    /\ pc = "s_loop"
    /\ aborted_at = 3
    /\ 1 \in invoked
    /\ text = DocShort
    /\ detected_lang = "en"
    /\ target_lang = "pt"
    /\ tts_parts = split_text_preserve_sentences(DocShort, limit)

\* the calls made for the chunk at hand are within 4 + 3 * (pieces), and
\* the pieces are those of the chunk itself, each called as it is
CallsBounded ==
    /\ pc = "t_try" => Len(calls) <= TRANSLATE_RETRIES
    /\ pc = "t_sub" =>
          /\ smaller = split_text_preserve_sentences(
                          chunks[idx], Max(1000, MAX_TRANSLATE_CHARS \div 3))
          /\ Len(calls) <= TRANSLATE_RETRIES + SUB_RETRIES * Len(smaller)
          /\ \A k \in DOMAIN calls :
                calls[k].sub > 0 =>
                   calls[k].len = Len(smaller[calls[k].sub])
    /\ pc = "t_prompt" =>
          Len(calls) <= TRANSLATE_RETRIES
                          + (IF Len(chunks[idx]) > SUB_SPLIT_MIN
                             THEN SUB_RETRIES * Len(smaller) ELSE 0)

\* C25: a chunk that is being tried gets its outcome, an entry in
\* translated_parts or the abort, after at most 4 + 3 * (number of pieces)
\* calls, the pieces being split off the chunk once and never split again.
\* where the chunk at hand stands: whole attempts, pieces, the prompt, done
ChunkRank ==
    CASE pc = "t_try"    -> 0
      [] pc = "t_sub"    -> 1
      [] pc = "t_prompt" -> 2
      [] OTHER           -> 3

\* a step of the chunk at hand makes one more call or moves on, and leaves
\* the chunk with a translated part more or with the translation aborted
ChunkAdvances ==
    pc \in {"t_try", "t_sub", "t_prompt"} =>
        /\ \/ Len(calls') = Len(calls) + 1 /\ ChunkRank' >= ChunkRank
           \/ calls' = calls /\ ChunkRank' > ChunkRank
        /\ ChunkRank' = 3 =>
              \/ /\ pc' = "t_chunk" /\ idx' = idx + 1
                 /\ Len(translated_parts') = Len(translated_parts) + 1
              \/ pc' = "t_returned" /\ aborted_at' = idx

\* C25: a chunk being processed always has a step to take (an attempt or an
\* answer is pending), every step either makes one more remote call, of which
\* there are at most 4 + 3 * (number of pieces), or moves on from the whole
\* attempts to the pieces, to the prompt or out of the chunk, never back, the
\* pieces being split once from the chunk itself; the chunk is left with one
\* more translated part or with the translation aborted at it
C25_ChunkReachesOutcome ==
    /\ []CallsBounded
    /\ [](pc = "t_try" => ~ok /\ attempt < TRANSLATE_RETRIES)
    /\ [](pc = "t_sub" => sub_attempt < SUB_RETRIES /\ sub_j \in DOMAIN smaller)
    /\ [][ChunkAdvances]_vars

\* a chunk of three pieces is translated with the last call allowed: four
\* failed attempts, then every piece at its third attempt
C25_Witness ==
    /\ pc = "t_chunk"
    /\ idx = 2
    /\ ok
    /\ Len(smaller) = 3
    /\ Len(calls) = TRANSLATE_RETRIES + SUB_RETRIES * 3
    /\ Len(translated_parts) = 1


\* C26: after the batch aborts on part k (the sixth save attempt for it
\* raised) no file for part k is on disk, so that a later run, which skips
\* every index whose file exists (SSkip), synthesizes part k again
C26_NoFileLeftForFailedPart ==
    (pc = "exit" /\ failed_at > 0) => failed_at \notin disk

=============================================================================
